---- MODULE Spec2Model ----
(***************************************************************************)
(* AWS Organizations organizational-unit (OU) management.                  *)
(*                                                                         *)
(* Two call sites are modelled:                                            *)
(*   src/go.py                       class AwsOrganizationalUnit           *)
(*   src/lib/.../aws_organization_units.py   class AwsOrganization, main() *)
(*                                                                         *)
(* The AWS Organizations service is the environment: a tree of roots, OUs  *)
(* and accounts, with paginated list calls, describe, create and delete.   *)
(* List calls on an existing parent always answer; describe, create and    *)
(* delete may additionally be failed by the environment (a ClientError).   *)
(*                                                                         *)
(* Three specifications: Spec has the callers of src/go.py, SpecModule the  *)
(* runs of the module, SpecListing the two child-OU resolvers applied to   *)
(* an arbitrary paginated listing.                                         *)
(*                                                                         *)
(* Strings are sequences of characters, so that strip, split, rsplit and   *)
(* join are computed and not assumed.  The ARN prefix and an OU id are one *)
(* character each.                                                         *)
(***************************************************************************)
EXTENDS Integers, Sequences, FiniteSets, TLC

VARIABLES ous, accounts, nextId, roots, pageSize, inst, last,
          lpages, lseg, lgo, lmod

vars == <<ous, accounts, nextId, roots, pageSize, inst, last,
          lpages, lseg, lgo, lmod>>

\* ------------------------------------------------------------- bounds --
\* OU ids the service ever hands out: 1..MaxOus
MaxOus == 2
\* accounts the environment ever creates
MaxAccounts == 1
\* the service pages a listing one entry a page, or MaxPageSize entries
MaxPageSize == 2
\* largest number of organization roots the service lists
MaxRoots == 2
\* pages and entries per page of a free-standing child-OU listing
MaxPages == 2
MaxPerPage == 2

\* ------------------------------------------------------------ strings --
\* Python None where a str is expected
None == <<"None">>

\* Python truthiness of an optional str: None and "" are falsy
Truthy(s) == s # None /\ s # <<>>

\* "arn:aws:organizations::"
ArnPrefix == <<"arn:aws:organizations::">>

\* str.startswith(prefix), and the slice s[:n] == prefix
StartsWith(s, prefix) ==
    /\ Len(s) >= Len(prefix)
    /\ SubSeq(s, 1, Len(prefix)) = prefix

RECURSIVE LStrip(_)
\* str.lstrip("/")
LStrip(s) == IF s # <<>> /\ Head(s) = "/" THEN LStrip(Tail(s)) ELSE s

RECURSIVE RStrip(_)
\* str.rstrip("/")
RStrip(s) ==
    IF s # <<>> /\ s[Len(s)] = "/" THEN RStrip(SubSeq(s, 1, Len(s) - 1)) ELSE s

\* str.strip("/")
Strip(s) == LStrip(RStrip(s))

RECURSIVE SplitFrom(_, _, _)
\* str.split("/"): acc are the finished segments, cur the one being read
SplitFrom(s, acc, cur) ==
    IF s = <<>> THEN Append(acc, cur)
    ELSE IF Head(s) = "/" THEN SplitFrom(Tail(s), Append(acc, cur), <<>>)
    ELSE SplitFrom(Tail(s), acc, Append(cur, Head(s)))

Split(s) == SplitFrom(s, <<>>, <<>>)

\* the position of the last "/" of s, 0 when there is none
LastSlash(s) ==
    LET P == {i \in 1..Len(s) : s[i] = "/"}
    IN IF P = {} THEN 0 ELSE CHOOSE i \in P : \A j \in P : j <= i

\* str.rsplit("/", 1)[0]
RSplitHead(s) ==
    IF LastSlash(s) = 0 THEN s ELSE SubSeq(s, 1, LastSlash(s) - 1)

\* str.split("/")[-1]
SplitLast(s) == Split(s)[Len(Split(s))]

RECURSIVE Join(_)
\* "/".join(segs)
Join(segs) ==
    IF segs = <<>> THEN <<>>
    ELSE IF Len(segs) = 1 THEN segs[1]
    ELSE segs[1] \o <<"/">> \o Join(Tail(segs))

\* n copies of x
Rep(x, n) == [i \in 1..n |-> x]

\* -------------------------------------------------- the remote service --
\* the ids of the organization roots, as list_roots returns them
RootIdOf(i) == 1 - i

\* the id part of an OU ARN
IdStr(k) == ToString(k)

\* the ARN of the OU with id k: "arn:aws:organizations::<acct>:ou/<org>/<id>"
ArnOf(k) == ArnPrefix \o <<"ou", "/", "o", "/", IdStr(k)>>

\* the service's state as one value
Tree == [ous |-> ous, accounts |-> accounts, nextId |-> nextId]

\* the ids that can be a parent
ParentIds(t) == {roots[i] : i \in 1..Len(roots)} \cup {o.Id : o \in t.ous}

RECURSIVE SortById(_)
\* a set of records with distinct Id, as the sequence ordered by Id
SortById(S) ==
    IF S = {} THEN <<>>
    ELSE LET m == CHOOSE x \in S : \A y \in S : x.Id <= y.Id
         IN <<m>> \o SortById(S \ {m})

RECURSIVE Pages(_, _)
\* a paginator: the listing cut into pages of n entries; an empty listing is
\* one empty page
Pages(s, n) ==
    IF Len(s) <= n THEN <<s>>
    ELSE <<SubSeq(s, 1, n)>> \o Pages(SubSeq(s, n + 1, Len(s)), n)

\* the OU descriptor the service returns
Desc(o) == [kind |-> "ou", Id |-> o.Id, Name |-> o.Name]

\* paginate list_organizational_units_for_parent(ParentId=parent)
list_organizational_units_for_parent(t, parent) ==
    Pages(SortById({Desc(o) : o \in {x \in t.ous : x.Parent = parent}}), pageSize)

\* paginate list_children(ParentId=parent, ChildType=type); the service
\* rejects a parent that does not exist (ParentNotFoundException)
list_children(t, parent, type) ==
    IF parent \notin ParentIds(t) THEN [err |-> TRUE, pages |-> <<>>]
    ELSE LET S == IF type = "ACCOUNT"
                  THEN {[Id |-> a.Id, Type |-> "ACCOUNT"] :
                            a \in {x \in t.accounts : x.Parent = parent}}
                  ELSE {[Id |-> o.Id, Type |-> "ORGANIZATIONAL_UNIT"] :
                            o \in {x \in t.ous : x.Parent = parent}}
         IN [err |-> FALSE, pages |-> Pages(SortById(S), pageSize)]

\* the error responses of describe_organizational_unit: Code and Message of
\* e.response["Error"]; the message is a sequence of words
NoFailure == [Code |-> "", Message |-> <<>>]
NotFoundPlain ==
    [Code |-> "OrganizationalUnitNotFoundException",
     Message |-> <<"You specified an organizational unit that doesn't exist.">>]
NotFoundNamed ==
    [Code |-> "OrganizationalUnitNotFoundException",
     Message |-> <<"OrganizationalUnitNotFoundException", ":",
                   "You specified an organizational unit that doesn't exist.">>]
AccessDenied ==
    [Code |-> "AccessDeniedException",
     Message |-> <<"You don't have permissions to access this resource.">>]

\* how the service words a not-found error
NotFoundResponses == {NotFoundPlain, NotFoundNamed}
\* the failures the environment can inject into a call
InjectedFailures == {NoFailure, AccessDenied}

\* describe_organizational_unit(OrganizationalUnitId=ou_id): fail is the
\* injected failure, nf the wording of a not-found error
describe_organizational_unit(t, ou_id, fail, nf) ==
    LET M == {o \in t.ous : <<IdStr(o.Id)>> = ou_id}
    IN IF fail # NoFailure THEN [err |-> fail, ou |-> [kind |-> "None"]]
       ELSE IF M = {} THEN [err |-> nf, ou |-> [kind |-> "None"]]
       ELSE [err |-> NoFailure, ou |-> Desc(CHOOSE o \in M : TRUE)]

\* create_organizational_unit(ParentId=parent_id, Name=name): the service
\* rejects an unknown parent, an empty name and a name a sibling already has
create_organizational_unit(t, parent_id, name, fail) ==
    IF \/ fail # NoFailure
       \/ parent_id \notin ParentIds(t)
       \/ name = <<>>
       \/ \E o \in t.ous : o.Parent = parent_id /\ o.Name = name
    THEN [err |-> TRUE, t |-> t, ou |-> [kind |-> "None"]]
    ELSE LET o == [Id |-> t.nextId, Name |-> name, Parent |-> parent_id]
         IN [err |-> FALSE,
             t |-> [t EXCEPT !.ous = @ \cup {o}, !.nextId = @ + 1],
             ou |-> Desc(o)]

\* delete_organizational_unit(OrganizationalUnitId=id): the service rejects
\* an unknown OU and an OU that still has children
delete_organizational_unit(t, id, fail) ==
    IF \/ fail # NoFailure
       \/ ~ \E o \in t.ous : o.Id = id
       \/ \E o \in t.ous : o.Parent = id
       \/ \E a \in t.accounts : a.Parent = id
    THEN [err |-> TRUE, t |-> t]
    ELSE [err |-> FALSE, t |-> [t EXCEPT !.ous = {o \in @ : o.Id # id}]]

\* ------------------------------------ src/go.py: AwsOrganizationalUnit --
\* self.ou is None
NoneOu == [kind |-> "None"]

\* the dict create_organizational_unit returns: {"OrganizationalUnit": ou}
Response(ou) == [kind |-> "response", Id |-> ou.Id, Name |-> ou.Name]

\* the caller holds no instance
NoInst ==
    [live |-> FALSE, name |-> None, arn |-> None, ou |-> NoneOu, root |-> 0,
     initCalls |-> <<>>]

RECURSIVE ScanPage(_, _)
\* for child_ou in page["OrganizationalUnits"]: the first one with the name
ScanPage(page, ou_name) ==
    IF page = <<>> THEN NoneOu
    ELSE IF Head(page).Name = ou_name THEN Head(page)
    ELSE ScanPage(Tail(page), ou_name)

RECURSIVE ScanPages(_, _, _)
\* for page in paginator.paginate(...): k pages have been fetched before
ScanPages(pages, ou_name, k) ==
    IF pages = <<>> THEN [ou |-> NoneOu, fetched |-> k]
    ELSE LET m == ScanPage(Head(pages), ou_name)
         IN IF m # NoneOu THEN [ou |-> m, fetched |-> k + 1]
            ELSE ScanPages(Tail(pages), ou_name, k + 1)

\* a faulty variant: only the first page of the listing is scanned
get_aws_organizational_unit_for_parent_FirstPage(pages, ou_name) ==
    [ou |-> ScanPage(Head(pages), ou_name), fetched |-> 1]

\* get_aws_organizational_unit_for_parent(ou_name, parent_id), given the pages
\* the paginator yields for parent_id
get_aws_organizational_unit_for_parent(pages, ou_name) ==
    ScanPages(pages, ou_name, 0)

RECURSIVE by_name_loop(_, _, _, _, _)
\* the loop of get_aws_organizational_unit_by_name at segment i
by_name_loop(t, segs, i, parent_ou_id, acc) ==
    LET r == get_aws_organizational_unit_for_parent(
                 list_organizational_units_for_parent(t, parent_ou_id), segs[i])
        acc2 == [listed |-> Append(acc.listed, parent_ou_id),
                 calls |-> acc.calls \o
                    Rep("list_organizational_units_for_parent", r.fetched)]
    IN IF r.ou = NoneOu
       THEN [ou |-> NoneOu, listed |-> acc2.listed, calls |-> acc2.calls]
       ELSE IF i = Len(segs)
       THEN [ou |-> r.ou, listed |-> acc2.listed, calls |-> acc2.calls]
       ELSE by_name_loop(t, segs, i + 1, r.ou.Id, acc2)

\* get_aws_organizational_unit_by_name(name), root_id being self.root["Id"]
get_aws_organizational_unit_by_name(t, root_id, name) ==
    by_name_loop(t, Split(name), 1, root_id, [listed |-> <<>>, calls |-> <<>>])

\* "OrganizationalUnitNotFoundException" in e.response["Error"]["Message"]
MessageNamesNotFound(err) ==
    \E i \in 1..Len(err.Message) :
        err.Message[i] = "OrganizationalUnitNotFoundException"

\* get_aws_organizational_unit_by_arn(arn)
get_aws_organizational_unit_by_arn(t, arn, fail, nf) ==
    IF ~ StartsWith(arn, ArnPrefix)
    THEN [exc |-> "InvalidOUArn", ou |-> NoneOu, calls |-> <<>>]
    ELSE LET d == describe_organizational_unit(t, SplitLast(arn), fail, nf)
         IN IF d.err = NoFailure
            THEN [exc |-> "", ou |-> d.ou,
                  calls |-> <<"describe_organizational_unit">>]
            ELSE IF MessageNamesNotFound(d.err)
            THEN [exc |-> "", ou |-> NoneOu,
                  calls |-> <<"describe_organizational_unit">>]
            ELSE [exc |-> "BotoClientFailure", ou |-> NoneOu,
                  calls |-> <<"describe_organizational_unit">>]

\* __init__(name, arn): get_aws_organization_root, then the resolution
AwsOrganizationalUnit_init(t, name, arn, fail, nf) ==
    IF Len(roots) # 1
    THEN [outcome |-> "MultipleRootsUnsupported", inst |-> NoInst,
          calls |-> <<"list_roots">>, listed |-> <<>>]
    ELSE IF Truthy(arn)
    THEN LET r == get_aws_organizational_unit_by_arn(t, arn, fail, nf)
             c == <<"list_roots">> \o r.calls
         IN IF r.exc # ""
            THEN [outcome |-> r.exc, inst |-> NoInst, calls |-> c,
                  listed |-> <<>>]
            ELSE [outcome |-> "ok",
                  inst |-> [live |-> TRUE, name |-> name, arn |-> arn,
                            ou |-> r.ou, root |-> roots[1], initCalls |-> c],
                  calls |-> c, listed |-> <<>>]
    ELSE IF Truthy(name)
    THEN LET r == get_aws_organizational_unit_by_name(t, roots[1], Strip(name))
             c == <<"list_roots">> \o r.calls
         IN [outcome |-> "ok",
             inst |-> [live |-> TRUE, name |-> Strip(name), arn |-> arn,
                       ou |-> r.ou, root |-> roots[1], initCalls |-> c],
             calls |-> c, listed |-> r.listed]
    \* raise MissingOUIdentifier: the name is not defined in the module
    ELSE [outcome |-> "NameError", inst |-> NoInst,
          calls |-> <<"list_roots">>, listed |-> <<>>]

RECURSIVE ChildPages(_, _)
\* for page in paginator.paginate(...): stop at the first page with children
ChildPages(pages, k) ==
    IF pages = <<>> THEN [found |-> FALSE, fetched |-> k]
    ELSE IF Len(Head(pages)) > 0 THEN [found |-> TRUE, fetched |-> k + 1]
    ELSE ChildPages(Tail(pages), k + 1)

RECURSIVE has_children_loop(_, _, _, _)
\* for child_type in types: ... ; calls are the list_children calls so far
has_children_loop(t, id, types, calls) ==
    IF types = <<>> THEN [exc |-> "", res |-> FALSE, calls |-> calls]
    ELSE LET l == list_children(t, id, Head(types))
         IN IF l.err
            THEN [exc |-> "BotoClientFailure", res |-> FALSE,
                  calls |-> Append(calls, "list_children")]
            ELSE LET s == ChildPages(l.pages, 0)
                     c == calls \o Rep("list_children", s.fetched)
                 IN IF s.found THEN [exc |-> "", res |-> TRUE, calls |-> c]
                    ELSE has_children_loop(t, id, Tail(types), c)

\* a faulty variant: only child accounts are looked for
has_children_AccountsOnly(self, t) ==
    IF self.ou = NoneOu THEN [exc |-> "", res |-> FALSE, calls |-> <<>>]
    ELSE IF self.ou.kind = "response"
    THEN [exc |-> "KeyError", res |-> FALSE, calls |-> <<>>]
    ELSE has_children_loop(t, self.ou.Id, <<"ACCOUNT">>, <<>>)

\* has_children(): self.ou["Id"] of the dict create returned is a KeyError
has_children(self, t) ==
    IF self.ou = NoneOu THEN [exc |-> "", res |-> FALSE, calls |-> <<>>]
    ELSE IF self.ou.kind = "response"
    THEN [exc |-> "KeyError", res |-> FALSE, calls |-> <<>>]
    ELSE has_children_loop(t, self.ou.Id,
                           <<"ACCOUNT", "ORGANIZATIONAL_UNIT">>, <<>>)

\* the body of delete_aws_organizational_unit after the self.ou test
delete_checked(self, t, fail) ==
    LET hc == has_children(self, t)
    IN IF hc.exc # ""
       THEN [outcome |-> hc.exc, self |-> self, t |-> t, calls |-> hc.calls]
       ELSE IF hc.res
       THEN [outcome |-> "CannotDeleteOUWithChildren", self |-> self,
             t |-> t, calls |-> hc.calls]
       \* self.ou["Id"] with self.ou None
       ELSE IF self.ou = NoneOu
       THEN [outcome |-> "TypeError", self |-> self, t |-> t,
             calls |-> hc.calls]
       ELSE LET d == delete_organizational_unit(t, self.ou.Id, fail)
                c == Append(hc.calls, "delete_organizational_unit")
            IN IF d.err
               THEN [outcome |-> "BotoClientFailure", self |-> self,
                     t |-> t, calls |-> c]
               ELSE [outcome |-> "ok", self |-> self, t |-> d.t, calls |-> c]

\* a faulty variant: the early return for an absent OU is missing
delete_aws_organizational_unit_NoEarlyReturn(self, t, fail) ==
    delete_checked(self, t, fail)

\* delete_aws_organizational_unit()
delete_aws_organizational_unit(self, t, fail) ==
    IF self.ou = NoneOu
    THEN [outcome |-> "ok", self |-> self, t |-> t, calls |-> <<>>]
    ELSE delete_checked(self, t, fail)

\* a faulty variant: the parent is always the root
create_parent_AlwaysRoot(self, t) ==
    [exists |-> TRUE, id |-> self.root, calls |-> <<>>]

\* the parent create_aws_organizational_unit picks for self.name
create_parent(self, t) ==
    LET parent_name == RSplitHead(self.name)
        ou_name == SplitLast(self.name)
    IN IF parent_name # ou_name
       THEN LET r == get_aws_organizational_unit_by_name(t, self.root,
                                                         parent_name)
            IN [exists |-> r.ou # NoneOu,
                id |-> IF r.ou # NoneOu THEN r.ou.Id ELSE self.root,
                calls |-> r.calls]
       ELSE [exists |-> TRUE, id |-> self.root, calls |-> <<>>]

\* create_aws_organizational_unit(); "raise BotoClientError" names an
\* exception the module does not define
create_aws_organizational_unit(self, t, fail) ==
    IF self.ou # NoneOu
    THEN [outcome |-> "ok", self |-> self, t |-> t, calls |-> <<>>]
    ELSE IF self.name = None
    THEN [outcome |-> "MissingRequiredParameter", self |-> self, t |-> t,
          calls |-> <<>>]
    ELSE LET p == create_parent(self, t)
         IN IF ~ p.exists
            THEN [outcome |-> "ParentOrganizationalUnitDoesNotExist",
                  self |-> self, t |-> t, calls |-> p.calls]
            ELSE LET c == create_organizational_unit(t, p.id,
                                                     SplitLast(self.name), fail)
                     k == Append(p.calls, "create_organizational_unit")
                 IN IF c.err
                    THEN [outcome |-> "NameError", self |-> self, t |-> t,
                          calls |-> k]
                    ELSE [outcome |-> "ok",
                          self |-> [self EXCEPT !.ou = Response(c.ou)],
                          t |-> c.t, calls |-> k]

\* ------------- src/lib/.../aws_organization_units.py: AwsOrganization --
\* Of two methods of the class with the same name, main() is modelled with
\* the one whose parameters fit its call, the later one when both fit:
\* get_ou() of line 214, delete_ou() of line 223, create_ou(name) of line 343,
\* get_ou_by_id(ou_id) of line 262.  self.orgazniation_tree is read as
\* self.organization_tree, self.aws_org_root as the result of get_root(), and
\* the condition broken over lines 218-219 as one condition.

RECURSIVE Concat(_)
\* children += page[...] over all pages
Concat(pages) ==
    IF pages = <<>> THEN <<>> ELSE Head(pages) \o Concat(Tail(pages))

\* get_children(parent_id, child_type): every page is fetched
get_children(t, parent_id, child_type) ==
    Concat(list_children(t, parent_id, child_type).pages)

\* the list_children calls of one get_children
get_children_calls(t, parent_id, child_type) ==
    Rep("list_children", Len(list_children(t, parent_id, child_type).pages))

\* the calls of the two get_children that fill Accounts and
\* OrganizationalUnits of one node
node_calls(t, id) ==
    get_children_calls(t, id, "ACCOUNT") \o
    get_children_calls(t, id, "ORGANIZATIONAL_UNIT")

\* get_organizational_unit(id) of an OU the service just listed
get_organizational_unit(t, id) ==
    describe_organizational_unit(t, <<IdStr(id)>>, NoFailure, NotFoundPlain).ou

RECURSIVE first_named(_, _, _, _)
\* for index, ou in enumerate(...["OrganizationalUnits"]): describe each child
\* until one has the name; k describe calls were made before
first_named(t, children, name, k) ==
    IF children = <<>> THEN [ou |-> NoneOu, described |-> k]
    ELSE LET d == get_organizational_unit(t, Head(children).Id)
         IN IF d.Name = name THEN [ou |-> d, described |-> k + 1]
            ELSE first_named(t, Tail(children), name, k + 1)

\* the OU get_organizational_unit_from_tree returns, with its child lists
WithChildren(t, ou) ==
    [kind |-> "ou", Id |-> ou.Id, Name |-> ou.Name,
     Accounts |-> get_children(t, ou.Id, "ACCOUNT"),
     OrganizationalUnits |-> get_children(t, ou.Id, "ORGANIZATIONAL_UNIT")]

RECURSIVE get_organizational_unit_from_tree(_, _, _, _)
\* get_aws_organization_tree / get_aws_organizational_unit_tree build the node
\* id for the branch filter segs, get_organizational_unit_from_tree then
\* descends it: one level per call
get_organizational_unit_from_tree(t, id, segs, calls) ==
    LET c1 == calls \o node_calls(t, id)
    IN IF segs[1] = <<>>
       THEN [fail |-> "Invalid organizational unit path", ou |-> NoneOu,
             calls |-> c1]
       ELSE LET f == first_named(t,
                        get_children(t, id, "ORGANIZATIONAL_UNIT"), segs[1], 0)
                c2 == c1 \o Rep("describe_organizational_unit", f.described)
            IN IF f.ou = NoneOu
               THEN [fail |-> "", ou |-> NoneOu, calls |-> c2]
               ELSE IF Len(segs) > 1
               THEN get_organizational_unit_from_tree(t, f.ou.Id, Tail(segs),
                        Append(c2, "describe_organizational_unit"))
               ELSE [fail |-> "", ou |-> WithChildren(t, f.ou),
                     calls |-> c2 \o <<"describe_organizational_unit">> \o
                               node_calls(t, f.ou.Id) \o node_calls(t, f.ou.Id)]

\* ou_is_valid(ou): a path is valid when it is not empty
ou_is_valid(ou) == ou # <<>>

\* get_ou_by_arn(arn) and get_ou_by_id(ou_id): every ClientError fails the
\* module
get_ou_by_arn(t, arn, fail, nf) ==
    LET d == describe_organizational_unit(t, SplitLast(arn), fail, nf)
    IN IF d.err # NoFailure
       THEN [fail |-> "Failed to describe organizational unit", ou |-> NoneOu,
             calls |-> <<"describe_organizational_unit">>]
       ELSE [fail |-> "", ou |-> d.ou,
             calls |-> <<"describe_organizational_unit">>]

\* AwsOrganization.__init__(module, ou)
AwsOrganization_init(t, ou, fail, nf) ==
    IF StartsWith(ou, ArnPrefix) THEN get_ou_by_arn(t, ou, fail, nf)
    ELSE IF ou_is_valid(ou)
    THEN IF Len(roots) # 1
         THEN [fail |-> "Multiple roots are not supported", ou |-> NoneOu,
               calls |-> <<"list_roots">>]
         ELSE get_organizational_unit_from_tree(t, roots[1], Split(ou),
                                                <<"list_roots">>)
    ELSE [fail |-> "Invalid organizational unit name", ou |-> NoneOu,
          calls |-> <<>>]

\* organizational_unit_has_children(): the lists cached by the constructor;
\* an OU described by id carries none (KeyError)
organizational_unit_has_children(ou) ==
    Len(ou.Accounts) > 0 \/ Len(ou.OrganizationalUnits) > 0

\* delete_ou()
delete_ou(t, ou, fail) ==
    IF "Accounts" \notin DOMAIN ou
    THEN [fail |-> "KeyError", t |-> t, calls |-> <<>>]
    ELSE IF organizational_unit_has_children(ou)
    THEN [fail |-> "Cannot delete organizational unit before deleting all children objects",
          t |-> t, calls |-> <<>>]
    ELSE LET d == delete_organizational_unit(t, ou.Id, fail)
         IN IF d.err
            THEN [fail |-> "Failed to delete organizational unit", t |-> t,
                  calls |-> <<"delete_organizational_unit">>]
            ELSE [fail |-> "", t |-> d.t,
                  calls |-> <<"delete_organizational_unit">>]

\* _get_ou(name, parent), given the pages the paginator yields for parent
_get_ou(pages, name) ==
    LET children_ous == Concat(pages)
        ou == SelectSeq(children_ous, LAMBDA f : f.Name = name)
    IN IF Len(ou) = 1 THEN [fail |-> "", ou |-> ou[1]]
       ELSE IF Len(ou) = 0 THEN [fail |-> "", ou |-> NoneOu]
       ELSE [fail |-> "None unique organizational unit names within a parent are not supported",
             ou |-> NoneOu]

RECURSIVE get_ou_loop(_, _, _, _, _)
\* the loop of get_ou(name) at segment i
get_ou_loop(t, ou_path, i, ou_parent, calls) ==
    LET pages == list_organizational_units_for_parent(t, ou_parent)
        r == _get_ou(pages, ou_path[i])
        c == calls \o Rep("list_organizational_units_for_parent", Len(pages))
    IN IF r.fail # "" \/ r.ou = NoneOu \/ i = Len(ou_path)
       THEN [fail |-> r.fail, ou |-> r.ou, calls |-> c]
       ELSE get_ou_loop(t, ou_path, i + 1, r.ou.Id, c)

\* get_root(): more than one root fails the module
get_root(t) ==
    IF Len(roots) > 1
    THEN [fail |-> "Multiple roots not supported", id |-> 0,
          calls |-> <<"list_roots">>]
    ELSE [fail |-> "", id |-> roots[1], calls |-> <<"list_roots">>]

\* get_ou(name), from the root get_root_id() names
get_ou(t, root_id, name) ==
    get_ou_loop(t, Split(LStrip(RStrip(name))), 1, root_id, <<>>)

\* create_ou(name) and _create_ou(name, parent_id)
create_ou(t, name, fail) ==
    LET ou_path == Split(LStrip(RStrip(name)))
        root == get_root(t)
        parent == IF Len(ou_path) = 1
                  THEN [fail |-> "", ou |-> [Id |-> root.id], calls |-> <<>>]
                  ELSE get_ou(t, root.id,
                              Join(SubSeq(ou_path, 1, Len(ou_path) - 1)))
        c1 == root.calls \o parent.calls
    IN IF root.fail # ""
       THEN [fail |-> root.fail, t |-> t, ou |-> NoneOu, calls |-> root.calls]
       ELSE IF parent.fail # ""
       THEN [fail |-> parent.fail, t |-> t, ou |-> NoneOu, calls |-> c1]
       ELSE IF parent.ou = NoneOu
       THEN [fail |-> "Parent organizational unit does not exist", t |-> t,
             ou |-> NoneOu, calls |-> c1]
       ELSE LET c == create_organizational_unit(t, parent.ou.Id,
                                                ou_path[Len(ou_path)], fail)
                c2 == Append(c1, "create_organizational_unit")
            IN IF c.err
               THEN [fail |-> "Failed to create organizational unit",
                     t |-> t, ou |-> NoneOu, calls |-> c2]
               ELSE [fail |-> "", t |-> c.t, ou |-> c.ou, calls |-> c2]

\* module.fail_json(msg=...): the result dict is not passed, the run reports
\* failed and no change
fail_json(msg, t, calls) ==
    [failed |-> TRUE, msg |-> msg, changed |-> FALSE, state |-> "",
     ou |-> NoneOu, t |-> t, calls |-> calls]

\* module.exit_json(**result)
exit_json(result, t, calls) ==
    [failed |-> FALSE, msg |-> "", changed |-> result.changed,
     state |-> result.state, ou |-> result.ou, t |-> t, calls |-> calls]

\* main(): ou_name, ou_state are module.params, check_mode is
\* module.check_mode; dfail is the failure injected into describe, fail the
\* one injected into create and delete
main(t, ou_name, ou_state, check_mode, dfail, nf, fail) ==
    LET client == AwsOrganization_init(t, ou_name, dfail, nf)
        ou == client.ou
        result == [changed |-> FALSE, ou |-> ou,
                   state |-> IF ou = NoneOu THEN "absent" ELSE "present"]
    IN IF client.fail # "" THEN fail_json(client.fail, t, client.calls)
       ELSE IF ou_state = "absent"
       THEN IF ou = NoneOu THEN exit_json(result, t, client.calls)
            ELSE IF check_mode
            THEN exit_json([result EXCEPT !.changed = TRUE], t, client.calls)
            ELSE LET d == delete_ou(t, ou, fail)
                 IN IF d.fail # ""
                    THEN fail_json(d.fail, t, client.calls \o d.calls)
                    ELSE exit_json([result EXCEPT !.changed = TRUE,
                                                  !.state = "absent"],
                                   d.t, client.calls \o d.calls)
       ELSE IF ou # NoneOu THEN exit_json(result, t, client.calls)
            ELSE IF check_mode
            THEN exit_json([result EXCEPT !.changed = TRUE], t, client.calls)
            ELSE LET c == create_ou(t, ou_name, fail)
                 IN IF c.fail # ""
                    THEN fail_json(c.fail, t, client.calls \o c.calls)
                    ELSE exit_json([result EXCEPT !.changed = TRUE,
                                                  !.ou = c.ou],
                                   c.t, client.calls \o c.calls)

\* ------------------------------------------------------------ inputs --
\* the name argument of AwsOrganizationalUnit(name=...)
NameArgs ==
    { None, <<>>, <<"/">>, <<"A">>, <<"a">>,
      <<"A", "/", "B">>, <<"A", "/", "A">>, <<"/", "A", "/">> }

\* the arn argument: the ARN of every id, and a string that is no ARN
ArnArgs == {ArnOf(k) : k \in 1..MaxOus} \cup { <<"A">> }

\* the (name, arn) pairs an instance is constructed with
ConstructArgs ==
    {<<n, None>> : n \in NameArgs} \cup {<<None, a>> : a \in ArnArgs}
    \cup {<<<<"A", "/", "B">>, ArnOf(1)>>}

\* the name parameter of the module
ModuleNames ==
    { <<>>, <<"A">>, <<"A", "/", "B">>, <<"A", "/", "A">>,
      <<"/", "A", "/">>, ArnOf(1) }

\* the names an account is created with
AccountNames == { <<"a">> }

\* ------------------------------------------------------------- actions --
NoRun ==
    [op |-> "none", outcome |-> "", calls |-> <<>>, listed |-> <<>>,
     name |-> None, arn |-> None, state |-> "", check |-> FALSE,
     changed |-> FALSE, rstate |-> "", fail |-> NoFailure, nf |-> NotFoundPlain]

\* the environment and the free-standing listing do not move
Frame == UNCHANGED <<roots, pageSize, lpages, lseg, lgo, lmod>>

\* the service takes the state t
SetTree(t) ==
    /\ t.nextId <= MaxOus + 1
    /\ ous' = t.ous
    /\ accounts' = t.accounts
    /\ nextId' = t.nextId

\* test_org_instance = AwsOrganizationalUnit(name=..., arn=...)
Construct ==
    \E a \in ConstructArgs :
    \E fail \in IF Truthy(a[2]) THEN InjectedFailures ELSE {NoFailure} :
    \E nf \in IF Truthy(a[2]) /\ fail = NoFailure THEN NotFoundResponses
              ELSE {NotFoundPlain} :
        LET r == AwsOrganizationalUnit_init(Tree, a[1], a[2], fail, nf)
        IN /\ inst' = r.inst
           /\ last' = [NoRun EXCEPT !.op = "init", !.outcome = r.outcome,
                          !.calls = r.calls, !.listed = r.listed,
                          !.name = a[1], !.arn = a[2], !.fail = fail, !.nf = nf]
           /\ UNCHANGED <<ous, accounts, nextId>>
           /\ Frame

\* test_org_instance.delete_aws_organizational_unit()
Delete ==
    /\ inst.live
    /\ \E fail \in InjectedFailures :
        LET r == delete_aws_organizational_unit(inst, Tree, fail)
        IN /\ inst' = r.self
           /\ SetTree(r.t)
           /\ last' = [NoRun EXCEPT !.op = "delete", !.outcome = r.outcome,
                          !.calls = r.calls, !.name = inst.name,
                          !.arn = inst.arn, !.fail = fail]
    /\ Frame

\* test_org_instance.create_aws_organizational_unit()
Create ==
    /\ inst.live
    /\ \E fail \in InjectedFailures :
        LET r == create_aws_organizational_unit(inst, Tree, fail)
        IN /\ inst' = r.self
           /\ SetTree(r.t)
           /\ last' = [NoRun EXCEPT !.op = "create", !.outcome = r.outcome,
                          !.calls = r.calls, !.name = inst.name,
                          !.arn = inst.arn, !.fail = fail]
    /\ Frame

\* one run of the module
ModuleRun ==
    /\ \E n \in ModuleNames, st \in {"present", "absent"}, chk \in BOOLEAN :
       \E dfail \in IF StartsWith(n, ArnPrefix) THEN InjectedFailures
                    ELSE {NoFailure} :
       \E nf \in IF StartsWith(n, ArnPrefix) /\ dfail = NoFailure
                 THEN NotFoundResponses ELSE {NotFoundPlain} :
        LET r == main(Tree, n, st, chk, dfail, nf, NoFailure)
        IN /\ SetTree(r.t)
           /\ last' = [NoRun EXCEPT !.op = "main",
                          !.outcome = IF r.failed THEN r.msg ELSE "ok",
                          !.calls = r.calls, !.name = n, !.state = st,
                          !.check = chk, !.changed = r.changed,
                          !.rstate = r.state, !.fail = dfail, !.nf = nf]
    /\ UNCHANGED inst
    /\ Frame

\* the environment creates an account and moves it under a parent
EnvCreateAccount ==
    /\ Cardinality(accounts) < MaxAccounts
    /\ \E p \in ParentIds(Tree), n \in AccountNames :
        accounts' = accounts \cup
            {[Id |-> Cardinality(accounts) + 1, Name |-> n, Parent |-> p]}
    /\ last' = [NoRun EXCEPT !.op = "env"]
    /\ UNCHANGED <<ous, nextId, inst>>
    /\ Frame

\* a resolver that has not run on the free-standing listing
Idle == [ran |-> FALSE, fail |-> "", ou |-> NoneOu]

Init ==
    /\ ous = {}
    /\ accounts = {}
    /\ nextId = 1
    /\ \E n \in 1..MaxRoots : roots = [i \in 1..n |-> RootIdOf(i)]
    /\ pageSize \in {1, MaxPageSize}
    /\ inst = NoInst
    /\ last = NoRun
    /\ lpages = <<>>
    /\ lseg = <<>>
    /\ lgo = Idle
    /\ lmod = Idle

\* the callers of src/go.py, and the environment
Next ==
    \/ Construct
    \/ Delete
    \/ Create
    \/ EnvCreateAccount

Spec == Init /\ [][Next]_vars

\* the runs of the module, and the environment
NextModule ==
    \/ ModuleRun
    \/ EnvCreateAccount

SpecModule == Init /\ [][NextModule]_vars

\* ------------------------------------ resolvers on a free-standing listing --
\* the segment names of a listing
ListingNames == { <<"A">>, <<"B">> }

\* the page lengths of a listing
ListingShapes == UNION {[1..n -> 0..MaxPerPage] : n \in 1..MaxPages}

RECURSIVE ShapeSum(_, _)
\* the entries on the first k pages
ShapeSum(shape, k) == IF k = 0 THEN 0 ELSE shape[k] + ShapeSum(shape, k - 1)

\* the listing of the shape whose j-th OU has the id j and the name nm[j]
MakePages(shape, nm) ==
    [k \in 1..Len(shape) |->
        [j \in 1..shape[k] |->
            [kind |-> "ou", Id |-> ShapeSum(shape, k - 1) + j,
             Name |-> nm[ShapeSum(shape, k - 1) + j]]]]

InitListing ==
    /\ ous = {}
    /\ accounts = {}
    /\ nextId = 1
    /\ roots = <<RootIdOf(1)>>
    /\ pageSize = 1
    /\ inst = NoInst
    /\ last = NoRun
    /\ \E shape \in ListingShapes :
       \E nm \in [1..ShapeSum(shape, Len(shape)) -> ListingNames] :
           lpages = MakePages(shape, nm)
    /\ lseg \in ListingNames
    /\ lgo = Idle
    /\ lmod = Idle

\* get_aws_organizational_unit_for_parent on the listing
ResolveGo ==
    /\ ~ lgo.ran
    /\ lgo' = [ran |-> TRUE, fail |-> "",
               ou |-> get_aws_organizational_unit_for_parent(lpages, lseg).ou]
    /\ UNCHANGED <<ous, accounts, nextId, roots, pageSize, inst, last,
                   lpages, lseg, lmod>>

\* _get_ou on the listing
ResolveModule ==
    /\ ~ lmod.ran
    /\ lmod' = [ran |-> TRUE, fail |-> _get_ou(lpages, lseg).fail,
                ou |-> _get_ou(lpages, lseg).ou]
    /\ UNCHANGED <<ous, accounts, nextId, roots, pageSize, inst, last,
                   lpages, lseg, lgo>>

NextListing ==
    \/ ResolveGo
    \/ ResolveModule

SpecListing == InitListing /\ [][NextListing]_vars

\* ------------------------------------------ what the tree itself says --
\* the remote calls of a log
Issued(calls) == {calls[i] : i \in 1..Len(calls)}

RECURSIVE PathOf(_, _)
\* the names on the way from the root down to the OU with the id
PathOf(t, id) ==
    IF \A o \in t.ous : o.Id # id THEN <<>>
    ELSE LET o == CHOOSE x \in t.ous : x.Id = id
         IN Append(PathOf(t, o.Parent), o.Name)

\* the root an OU hangs under
RECURSIVE RootOf(_, _)
RootOf(t, id) ==
    IF \A o \in t.ous : o.Id # id THEN id
    ELSE RootOf(t, (CHOOSE x \in t.ous : x.Id = id).Parent)

\* the OU whose path from the first root is segs, None when there is none
OuAt(t, segs) ==
    LET M == {o \in t.ous : PathOf(t, o.Id) = segs /\ RootOf(t, o.Id) = roots[1]}
    IN IF M = {} THEN NoneOu ELSE Desc(CHOOSE o \in M : TRUE)

\* the OU an ARN names, None when there is none
OuOfArn(t, arn) ==
    LET M == {o \in t.ous : ArnOf(o.Id) = arn}
    IN IF M = {} THEN NoneOu ELSE Desc(CHOOSE o \in M : TRUE)

\* the OU an instance is about: the one its ARN names, else the one its name
\* path leads to
TargetOf(t, self) ==
    IF Truthy(self.arn) THEN OuOfArn(t, self.arn)
    ELSE OuAt(t, Split(self.name))

\* the OU has a child account or a child OU
HasChild(t, id) ==
    \/ \E o \in t.ous : o.Parent = id
    \/ \E a \in t.accounts : a.Parent = id

\* the id of the parent the path segs names: the root for one segment
ParentAt(t, segs) ==
    IF Len(segs) = 1 THEN [kind |-> "ou", Id |-> roots[1], Name |-> <<>>]
    ELSE OuAt(t, SubSeq(segs, 1, Len(segs) - 1))

\* an instance was just constructed, and the step is its next call op
FirstCall(op) == last.op = "init" /\ last.outcome = "ok" /\ last'.op = op

\* the step leaves the remote tree as it was
TreeUnchanged == ous' = ous /\ accounts' = accounts

\* ------------------------------------------------------------------ C1 --
\* C1: delete_aws_organizational_unit on an OU that resolves and has a child
\* account or a child OU fails with CannotDeleteOUWithChildren, issues no
\* remote delete call and leaves OUs, accounts and parent links as they were.
C1_DeleteNonEmptyFails ==
    [][ ( /\ FirstCall("delete")
          /\ TargetOf(Tree, inst) # NoneOu
          /\ HasChild(Tree, TargetOf(Tree, inst).Id) )
        => ( /\ last'.outcome = "CannotDeleteOUWithChildren"
             /\ "delete_organizational_unit" \notin Issued(last'.calls)
             /\ TreeUnchanged ) ]_vars

\* a delete was refused for an OU whose only children are OUs
C1_Witness ==
    /\ last.op = "delete"
    /\ last.outcome = "CannotDeleteOUWithChildren"
    /\ inst.ou # NoneOu
    /\ \E o \in ous : o.Parent = inst.ou.Id
    /\ \A a \in accounts : a.Parent # inst.ou.Id

\* ------------------------------------------------------------------ C2 --
\* C2: create_aws_organizational_unit for a path of two or more segments
\* whose parent path resolves to no OU fails with
\* ParentOrganizationalUnitDoesNotExist, issues no remote create call and adds
\* no OU, whatever the segment names are ("A/A" included).
C2_CreateMissingParentFails ==
    [][ ( /\ FirstCall("create")
          /\ ~ Truthy(inst.arn)
          /\ Len(Split(inst.name)) >= 2
          /\ ParentAt(Tree, Split(inst.name)) = NoneOu )
        => ( /\ last'.outcome = "ParentOrganizationalUnitDoesNotExist"
             /\ "create_organizational_unit" \notin Issued(last'.calls)
             /\ ous' = ous ) ]_vars

\* ------------------------------------------------------------------ C3 --
\* C3: a successful create of an absent path p (one segment, or with a parent
\* path that resolves) adds exactly one OU, named p's last segment, under the
\* OU p's parent path resolves to (the root for one segment), and a fresh
\* resolution of p returns it; a successful delete of a resolving p removes
\* that OU and a fresh resolution of p returns None.
C3_LifecycleEstablishesState ==
    [][ /\ ( /\ FirstCall("create")
             /\ last'.outcome = "ok"
             /\ TargetOf(Tree, inst) = NoneOu
             /\ inst.name # None
             /\ ParentAt(Tree, Split(inst.name)) # NoneOu )
           => \E o \in ous' \ ous :
                 /\ ous' = ous \cup {o}
                 /\ o.Name = SplitLast(inst.name)
                 /\ o.Parent = ParentAt(Tree, Split(inst.name)).Id
                 /\ get_aws_organizational_unit_by_name(
                        Tree', inst.root, inst.name).ou = Desc(o)
        /\ ( /\ FirstCall("delete")
             /\ last'.outcome = "ok"
             /\ TargetOf(Tree, inst) # NoneOu )
           => /\ ous' = {o \in ous : o.Id # TargetOf(Tree, inst).Id}
              /\ accounts' = accounts
              /\ ~ Truthy(inst.arn) =>
                    get_aws_organizational_unit_by_name(
                        Tree', inst.root, inst.name).ou = NoneOu ]_vars

\* an OU was just created under an OU that is not the root
C3_Witness ==
    /\ last.op = "create"
    /\ last.outcome = "ok"
    /\ inst.ou.kind = "response"
    /\ \E o \in ous : o.Id = inst.ou.Id /\ o.Parent \in {x.Id : x \in ous}

\* ------------------------------------------------------------------ C4 --
\* the OU the module's name parameter is about
ModuleTarget(t, n) ==
    IF StartsWith(n, ArnPrefix) THEN OuOfArn(t, n)
    ELSE OuAt(t, Split(Strip(n)))

\* the module run for the requested state does nothing and reports no change
ModuleNoOp(n, st, chk) ==
    LET r == main(Tree, n, st, chk, NoFailure, NotFoundNamed, NoFailure)
    IN /\ r.changed = FALSE
       /\ r.t = Tree
       /\ Issued(r.calls) \cap
            {"create_organizational_unit", "delete_organizational_unit"} = {}

Resolving(t, segs) ==
    CHOOSE k \in 0..Len(segs) :
        /\ \A j \in 1..k : OuAt(t, SubSeq(segs, 1, j)) # NoneOu
        /\ k < Len(segs) => OuAt(t, SubSeq(segs, 1, k + 1)) = NoneOu

\* the parents whose children a resolution of segs has to list
ParentsToList(t, segs) ==
    LET k == Resolving(t, segs)
        n == IF k = Len(segs) THEN k ELSE k + 1
    IN [i \in 1..n |->
          IF i = 1 THEN roots[1] ELSE OuAt(t, SubSeq(segs, 1, i - 1)).Id]

\* C5: resolving a name path returns the OU reached from the root by moving,
\* segment by segment, to the child OU whose Name equals the segment exactly;
\* when a segment has no such child the result is None, no listing is asked
\* for a later segment, and the OU of a proper prefix is not returned.
C5_ResolveByName ==
    ( /\ last.op = "init"
      /\ last.outcome = "ok"
      /\ ~ Truthy(last.arn) )
    => /\ inst.ou = OuAt(Tree, Split(Strip(last.name)))
       /\ last.listed = ParentsToList(Tree, Split(Strip(last.name)))
       /\ Len(last.calls) >= Len(last.listed) + 1

\* a two-segment path whose first segment resolves and whose second does not
C5_Witness ==
    /\ last.op = "init"
    /\ last.outcome = "ok"
    /\ ~ Truthy(last.arn)
    /\ Len(Split(Strip(last.name))) = 2
    /\ OuAt(Tree, SubSeq(Split(Strip(last.name)), 1, 1)) # NoneOu
    /\ inst.ou = NoneOu
    /\ Len(last.listed) = 2

\* ------------------------------------------------------------------ C6 --
\* the remote calls that change the tree
Mutating == {"create_organizational_unit", "delete_organizational_unit"}

\* C6: a check-mode run of the module issues no remote create or delete call,
\* and the changed value it reports is the one the run without check mode
\* reports from the same tree with the same parameters, also where that run
\* fails (delete of a non-empty OU, create with a missing parent).
C6_CheckModeReportsChange ==
    ( last.op = "main" /\ last.check )
    => /\ Issued(last.calls) \cap Mutating = {}
       /\ last.changed =
            main(Tree, last.name, last.state, FALSE, last.fail, last.nf,
                 NoFailure).changed

\* ------------------------------------------------------------------ C7 --
\* C7: a run of the module that completes without failure outside check mode
\* returns state "present" when the target OU exists in the tree at exit, and
\* "absent" when it does not.
C7_ReturnedStateIsActual ==
    ( last.op = "main" /\ ~ last.check /\ last.outcome = "ok" )
    => ( last.rstate =
           IF ModuleTarget(Tree, last.name) # NoneOu THEN "present"
           ELSE "absent" )

\* ------------------------------------------------------------------ C8 --
\* C8: resolving by ARN has three outcomes.  An input without the ARN prefix
\* fails with InvalidOUArn and no describe call; an id the service reports as
\* not found gives None; a describe call that fails for another reason fails
\* with BotoClientFailure; otherwise the described OU is the result.
C8_ResolveByArn ==
    ( last.op = "init" /\ Truthy(last.arn) /\ Len(roots) = 1 )
    => IF ~ StartsWith(last.arn, ArnPrefix)
       THEN /\ last.outcome = "InvalidOUArn"
            /\ "describe_organizational_unit" \notin Issued(last.calls)
       ELSE IF last.fail # NoFailure
       THEN last.outcome = "BotoClientFailure"
       ELSE /\ last.outcome = "ok"
            /\ inst.ou = OuOfArn(Tree, last.arn)

\* ------------------------------------------------------------------ C9 --
\* the name is missing, or empty once "/" is stripped
NameMissing(n) == n = None \/ Strip(n) = <<>>

\* C9: create and delete need a name.  With no name and no ARN, with an ARN
\* and no name, or with a name that is empty after stripping "/", the
\* operation fails with MissingRequiredParameter, and no remote call was
\* issued before that.
C9_NameRequired ==
    /\ ( /\ last.op = "init"
         /\ last.outcome # "ok"
         /\ ~ Truthy(last.arn)
         /\ NameMissing(last.name) )
       => /\ last.outcome = "MissingRequiredParameter"
          /\ last.calls = <<>>
    /\ ( /\ last.op \in {"create", "delete"}
         /\ NameMissing(inst.name) )
       => /\ last.outcome = "MissingRequiredParameter"
          /\ last.calls = <<>>
          /\ inst.initCalls = <<>>

\* ----------------------------------------------------------------- C10 --
\* the OUs of the listing that have the name
Named(pages, name) == SelectSeq(Concat(pages), LAMBDA f : f.Name = name)

\* the failure of the module for a name two siblings have
Ambiguous ==
    "None unique organizational unit names within a parent are not supported"

\* C10: when the listing of one parent holds two or more OUs with the name
\* that is resolved, the resolution fails as ambiguous and returns none of
\* them, in get_aws_organizational_unit_for_parent and in _get_ou, on
\* whichever pages the OUs are.
C10_DuplicateNamesFail ==
    Len(Named(lpages, lseg)) >= 2
    => /\ lgo.ran => (lgo.fail # "" /\ lgo.ou = NoneOu)
       /\ lmod.ran => (lmod.fail = Ambiguous /\ lmod.ou = NoneOu)

\* ----------------------------------------------------------------- C11 --
\* the step issued the remote call and the service did not carry it out
CallFailed(api) ==
    /\ api \in Issued(last'.calls)
    /\ ous' = ous

\* C11: every failure of the remote create call and of the remote delete
\* call reaches the caller as BotoClientFailure, as no other exception and
\* not as success.
C11_MutationFailureIsClientFailure ==
    [][ /\ ( last'.op = "create" /\ CallFailed("create_organizational_unit") )
           => last'.outcome = "BotoClientFailure"
        /\ ( last'.op = "delete" /\ CallFailed("delete_organizational_unit") )
           => last'.outcome = "BotoClientFailure" ]_vars

\* ----------------------------------------------------------------- C12 --
\* the failures of the module for more than one root
MultipleRootsMessages ==
    {"Multiple roots are not supported", "Multiple roots not supported"}

\* C12: when the service lists more than one root, constructing a resolver,
\* by name or by ARN, fails as multiple roots unsupported once list_roots has
\* answered: no child listing, describe, create or delete call is issued and
\* no OU descriptor is produced.  This is the module's resolver, for a name
\* parameter that is not empty.
C12_ModuleRejectsMultipleRoots ==
    ( last.op = "main" /\ Len(roots) > 1 /\ last.name # <<>> )
    => /\ last.outcome \in MultipleRootsMessages
       /\ Issued(last.calls) \subseteq {"list_roots"}

\* C12 for the resolver of src/go.py: the constructor raises
\* MultipleRootsUnsupported after list_roots alone, and the caller gets no
\* instance and no descriptor.
C12_GoRejectsMultipleRoots ==
    ( last.op = "init" /\ Len(roots) > 1 )
    => /\ last.outcome = "MultipleRootsUnsupported"
       /\ last.calls = <<"list_roots">>
       /\ inst = NoInst

\* ----------------------------------------------------------------- C13 --
\* C13: with no other writer, after a successful create or delete call on an
\* instance, self.ou is None exactly when the instance's target OU is absent
\* from the tree, and otherwise is the descriptor with the Id of the target
\* OU that exists.
C13_CachedOuTracksTree ==
    ( /\ inst.live
      /\ last.op \in {"create", "delete"}
      /\ last.outcome = "ok" )
    => IF TargetOf(Tree, inst) = NoneOu THEN inst.ou = NoneOu
       ELSE inst.ou = TargetOf(Tree, inst)

====
